---- MODULE Spec2Model ----
(***************************************************************************)
(* Log Analyzer Agent: the LangGraph workflow of src/agent/graph.py with   *)
(* its nodes (parse_logs, analyze_error, generate_fix, create_pr,          *)
(* advance_error), the conditional routing, the interrupt after            *)
(* generate_fix, and the log parsing / grouping functions the nodes call.  *)
(***************************************************************************)
EXTENDS Integers, Sequences, FiniteSets, TLC

\* ------------------------------------------------------------------ bounds

\* Longest log text, in lines.
MaxLines == 2

\* Longest code_changes list the fix generator returns.
MaxChanges == 2

\* ------------------------------------------------------------ nullable values

\* Python's None, and a present value: a nullable field holds <<>> or <<v>>.
None == <<>>

Some(v) == <<v>>

\* ------------------------------------------------------------------ characters

\* A line of log text is the sequence of its characters, each a one-character
\* string.  The character classes of LOG_PATTERN, over the characters used:
Digits == {"0", "1", "2", "3", "4", "5", "6", "7", "8", "9"}

DigitSeq == <<"0", "1", "2", "3", "4", "5", "6", "7", "8", "9">>

Lower ==
    <<"a", "b", "c", "d", "e", "f", "g", "h", "i", "j", "k", "l", "m",
      "n", "o", "p", "q", "r", "s", "t", "u", "v", "w", "x", "y", "z">>

Upper ==
    <<"A", "B", "C", "D", "E", "F", "G", "H", "I", "J", "K", "L", "M",
      "N", "O", "P", "Q", "R", "S", "T", "U", "V", "W", "X", "Y", "Z">>

\* \w
WordChars ==
    Digits \cup {Lower[i] : i \in DOMAIN Lower} \cup {Upper[i] : i \in DOMAIN Upper}
           \cup {"_"}

\* \s, and what str.strip removes
Whitespace == {" ", "\t", "\r", "\n"}

RECURSIVE Str(_)
\* The string of a character sequence.
Str(cs) == IF cs = <<>> THEN "" ELSE Head(cs) \o Str(Tail(cs))

Take(cs, n) == SubSeq(cs, 1, n)

Drop(cs, n) == SubSeq(cs, n + 1, Len(cs))

\* Length of the longest prefix of cs whose characters are all in S (a greedy
\* \s+, \w+ or \d+), resp. all outside S (a greedy \S+).
SpanIn(cs, S) ==
    CHOOSE k \in 0..Len(cs) :
        /\ \A i \in 1..k : cs[i] \in S
        /\ k = Len(cs) \/ cs[k + 1] \notin S

SpanNotIn(cs, S) ==
    CHOOSE k \in 0..Len(cs) :
        /\ \A i \in 1..k : cs[i] \notin S
        /\ k = Len(cs) \/ cs[k + 1] \in S

Reverse(cs) == [i \in 1..Len(cs) |-> cs[Len(cs) + 1 - i]]

\* str.lstrip, str.rstrip, str.strip
lstrip(cs) == Drop(cs, SpanIn(cs, Whitespace))

rstrip(cs) == Take(cs, Len(cs) - SpanIn(Reverse(cs), Whitespace))

strip(cs) == rstrip(lstrip(cs))

\* str.upper
upper(cs) ==
    [i \in 1..Len(cs) |->
        IF \E k \in DOMAIN Lower : Lower[k] = cs[i]
        THEN Upper[CHOOSE k \in DOMAIN Lower : Lower[k] = cs[i]]
        ELSE cs[i]]

RECURSIVE int(_)
\* int() of a string of decimal digits.
int(cs) ==
    IF cs = <<>> THEN 0
    ELSE int(Take(cs, Len(cs) - 1)) * 10
            + ((CHOOSE d \in DOMAIN DigitSeq : DigitSeq[d] = cs[Len(cs)]) - 1)

\* ------------------------------------------------------------------ log lines

\* An INFO line in the format of the sample logs.
\*   17:13:30.548 \tINFO \tt.cpp \t0078 \tCheck \t1 step1
InfoLine ==
    <<"1", "7", ":", "1", "3", ":", "3", "0", ".", "5", "4", "8", " ",
      "\t", "I", "N", "F", "O", " ", "\t", "t", ".", "c", "p", "p", " ",
      "\t", "0", "0", "7", "8", " ", "\t", "C", "h", "e", "c", "k", " ",
      "\t", "1", " ", "s", "t", "e", "p", "1">>

\* An ERROR line of the same file, function and thread.
\*   17:13:30.548 \tERROR \tt.cpp \t1654 \tCheck \t1 failed
ErrorLine ==
    <<"1", "7", ":", "1", "3", ":", "3", "0", ".", "5", "4", "8", " ",
      "\t", "E", "R", "R", "O", "R", " ", "\t", "t", ".", "c", "p", "p",
      " ", "\t", "1", "6", "5", "4", " ", "\t", "C", "h", "e", "c", "k",
      " ", "\t", "1", " ", "f", "a", "i", "l", "e", "d">>

\* The same error on another thread.
\*   17:13:30.548 \tERROR \tt.cpp \t1654 \tCheck \t2 failed
ErrorLineOtherThread ==
    <<"1", "7", ":", "1", "3", ":", "3", "0", ".", "5", "4", "8", " ",
      "\t", "E", "R", "R", "O", "R", " ", "\t", "t", ".", "c", "p", "p",
      " ", "\t", "1", "6", "5", "4", " ", "\t", "C", "h", "e", "c", "k",
      " ", "\t", "2", " ", "f", "a", "i", "l", "e", "d">>

\* A CRITICAL line of another file and function.
\*   17:13:30.548 \tCRITICAL \tr.cpp \t0204 \tRoute \t2 no route
CriticalLine ==
    <<"1", "7", ":", "1", "3", ":", "3", "0", ".", "5", "4", "8", " ",
      "\t", "C", "R", "I", "T", "I", "C", "A", "L", " ", "\t", "r", ".",
      "c", "p", "p", " ", "\t", "0", "2", "0", "4", " ", "\t", "R", "o",
      "u", "t", "e", " ", "\t", "2", " ", "n", "o", " ", "r", "o", "u",
      "t", "e">>

\* A line that does not match (test_parse_malformed_line).
\*   17:13:30 INFO incomplete
GarbageLine ==
    <<"1", "7", ":", "1", "3", ":", "3", "0", " ", "I", "N", "F", "O",
      " ", "i", "n", "c", "o", "m", "p", "l", "e", "t", "e">>

\* A line that is empty after strip() (test_parse_empty_line).
\*     
BlankLine ==
    <<" ", " ">>

\* Further lines for the parsing functions taken on their own.

\* An error whose level is in lower case and whose file name holds a colon.
\*   17:13:30.548 error a:b 0001 c 3 e1
ColonFileLine ==
    <<"1", "7", ":", "1", "3", ":", "3", "0", ".", "5", "4", "8", " ",
      "e", "r", "r", "o", "r", " ", "a", ":", "b", " ", "0", "0", "0",
      "1", " ", "c", " ", "3", " ", "e", "1">>

\* An error whose function name holds a colon.
\*   17:13:30.548 ERROR a 0002 b:c 1 e2
ColonFuncLine ==
    <<"1", "7", ":", "1", "3", ":", "3", "0", ".", "5", "4", "8", " ",
      "E", "R", "R", "O", "R", " ", "a", " ", "0", "0", "0", "2", " ",
      "b", ":", "c", " ", "1", " ", "e", "2">>

\* A line whose line number has five digits: no match.
\*   17:13:30.548 ERROR t.cpp 00123 Check 1 bad
FiveDigitLine ==
    <<"1", "7", ":", "1", "3", ":", "3", "0", ".", "5", "4", "8", " ",
      "E", "R", "R", "O", "R", " ", "t", ".", "c", "p", "p", " ", "0",
      "0", "1", "2", "3", " ", "C", "h", "e", "c", "k", " ", "1", " ",
      "b", "a", "d">>

\* A line whose message follows the thread id without whitespace.
\*   17:13:30.548 INFO t.cpp 0078 Check 2glued
GluedThreadLine ==
    <<"1", "7", ":", "1", "3", ":", "3", "0", ".", "5", "4", "8", " ",
      "I", "N", "F", "O", " ", "t", ".", "c", "p", "p", " ", "0", "0",
      "7", "8", " ", "C", "h", "e", "c", "k", " ", "2", "g", "l", "u",
      "e", "d">>

\* ErrorLine inside whitespace: the same raw_line after strip().
PaddedErrorLine == <<" ">> \o ErrorLine \o <<" ", "\r">>

\* An error whose line number field is 0000.
\*   17:13:30.548 ERROR z.c 0000 Zero 1 z
ZeroLineNumberLine ==
    <<"1", "7", ":", "1", "3", ":", "3", "0", ".", "5", "4", "8", " ",
      "E", "R", "R", "O", "R", " ", "z", ".", "c", " ", "0", "0", "0",
      "0", " ", "Z", "e", "r", "o", " ", "1", " ", "z">>

\* The lines log texts are made of.  A log text is held as the sequence of
\* the indices of its lines in this table; Content gives its characters.
LineTable ==
    <<InfoLine, ErrorLine, ErrorLineOtherThread, CriticalLine, GarbageLine,
      BlankLine, ColonFileLine, ColonFuncLine, FiveDigitLine, GluedThreadLine,
      PaddedErrorLine, ZeroLineNumberLine>>

\* The lines of a log text, each a sequence of characters.
Content(text) == [i \in 1..Len(text) |-> LineTable[text[i]]]

\* The lines of the sample logs and of the tests.
LogLines ==
    {i \in DOMAIN LineTable :
        LineTable[i] \in {InfoLine, ErrorLine, ErrorLineOtherThread,
                          CriticalLine, GarbageLine, BlankLine}}

\* All log texts of at most MaxLines lines.
LogTexts == UNION {[1..n -> LogLines] : n \in 0..MaxLines}

ParserLines == DOMAIN LineTable

\* Longest log text given to the parsing functions on their own, in lines.
MaxParserLines == 3

ParserTexts == UNION {[1..n -> ParserLines] : n \in 0..MaxParserLines}

\* Largest context_lines given to group_related_entries on its own.
MaxRadius == 1

\* ------------------------------------------------------------------ log parser

\* LOG_PATTERN.match, field by field.  Every quantifier of the pattern is
\* greedy and each of the first five fields must be followed by whitespace,
\* so these fields are the whitespace-separated tokens of the line in order;
\* the thread id is the leading digits of what follows the function name and
\* the message is the rest after optional whitespace.  Each operator takes the
\* groups matched so far and the rest of the line, and gives the seven groups
\* or None.

\* \s* , and \s+ where StartsWithSpace holds
SkipSpace(cs) == Drop(cs, SpanIn(cs, Whitespace))

StartsWithSpace(cs) == cs # <<>> /\ cs[1] \in Whitespace

\* (\d+)\s*(.*)$ with n leading digits
MatchThreadN(groups, cs, n) ==
    IF n >= 1
    THEN Some(groups \o <<Take(cs, n), SkipSpace(Drop(cs, n))>>)
    ELSE None

MatchThread(groups, cs) == MatchThreadN(groups, cs, SpanIn(cs, Digits))

\* (\S+)\s+ for the function name, a token of n characters
MatchFunctionN(groups, cs, n) ==
    IF n >= 1 /\ StartsWithSpace(Drop(cs, n))
    THEN MatchThread(Append(groups, Take(cs, n)), SkipSpace(Drop(cs, n)))
    ELSE None

MatchFunction(groups, cs) == MatchFunctionN(groups, cs, SpanNotIn(cs, Whitespace))

\* (\d{4})\s+
MatchLineNumber(groups, cs) ==
    IF /\ Len(cs) >= 4
       /\ \A i \in 1..4 : cs[i] \in Digits
       /\ StartsWithSpace(Drop(cs, 4))
    THEN MatchFunction(Append(groups, Take(cs, 4)), SkipSpace(Drop(cs, 4)))
    ELSE None

\* (\S+)\s+ for the source file, a token of n characters
MatchSourceFileN(groups, cs, n) ==
    IF n >= 1 /\ StartsWithSpace(Drop(cs, n))
    THEN MatchLineNumber(Append(groups, Take(cs, n)), SkipSpace(Drop(cs, n)))
    ELSE None

MatchSourceFile(groups, cs) ==
    MatchSourceFileN(groups, cs, SpanNotIn(cs, Whitespace))

\* (\w+)\s+ with n leading word characters
MatchLevelN(groups, cs, n) ==
    IF n >= 1 /\ StartsWithSpace(Drop(cs, n))
    THEN MatchSourceFile(Append(groups, Take(cs, n)), SkipSpace(Drop(cs, n)))
    ELSE None

MatchLevel(groups, cs) == MatchLevelN(groups, cs, SpanIn(cs, WordChars))

\* ^(\d{2}:\d{2}:\d{2}\.\d{3})\s+ and the rest of the pattern
LOG_PATTERN(line) ==
    IF /\ Len(line) >= 12
       /\ \A i \in 1..12 : IF i \in {3, 6} THEN line[i] = ":"
                           ELSE IF i = 9 THEN line[i] = "."
                           ELSE line[i] \in Digits
       /\ StartsWithSpace(Drop(line, 12))
    THEN MatchLevel(<<Take(line, 12)>>, SkipSpace(Drop(line, 12)))
    ELSE None

\* A parse_log_line without the "if not match" test: match.group fails on
\* None with an AttributeError, which the except clause does not catch.
parse_log_line_unchecked_match(raw) ==
    LET line == strip(raw)
        match == LOG_PATTERN(line)
    IN  IF line = <<>> THEN None
        ELSE IF match = None
        THEN Some([raised |-> "AttributeError", timestamp |-> "", level |-> "",
                   source_file |-> "", line_number |-> 0, function_name |-> "",
                   thread_id |-> "", message |-> "", raw_line |-> Str(line)])
        ELSE Some([timestamp |-> Str(match[1][1]),
                   level |-> Str(upper(match[1][2])),
                   source_file |-> Str(match[1][3]),
                   line_number |-> int(match[1][4]),
                   function_name |-> Str(match[1][5]),
                   thread_id |-> Str(match[1][6]),
                   message |-> Str(strip(match[1][7])),
                   raw_line |-> Str(line)])

\* parse_log_line: a LogEntry for a line that matches, None otherwise.
parse_log_line(raw) ==
    LET line == strip(raw)
        match == LOG_PATTERN(line)
    IN  IF line = <<>> THEN None
        ELSE IF match = None THEN None
        ELSE LET group == match[1]
             IN  IF \A i \in 1..Len(group[4]) : group[4][i] \in Digits
                 THEN Some([timestamp |-> Str(group[1]),
                            level |-> Str(upper(group[2])),
                            source_file |-> Str(group[3]),
                            line_number |-> int(group[4]),
                            function_name |-> Str(group[5]),
                            thread_id |-> Str(group[6]),
                            message |-> Str(strip(group[7])),
                            raw_line |-> Str(line)])
                 ELSE None

RECURSIVE parse_log_content_until_unparsable(_)
\* A parse_log_content that stops at the first line that gives no entry.
parse_log_content_until_unparsable(content) ==
    IF content = <<>> THEN <<>>
    ELSE LET entry == parse_log_line(Head(content))
         IN  IF entry = None THEN <<>>
             ELSE <<entry[1]>> \o parse_log_content_until_unparsable(Tail(content))

RECURSIVE parse_log_content(_)
\* parse_log_content: the entries of the lines that parse, in line order.
parse_log_content(content) ==
    IF content = <<>> THEN <<>>
    ELSE LET entry == parse_log_line(Head(content))
         IN  (IF entry # None THEN <<entry[1]>> ELSE <<>>)
                 \o parse_log_content(Tail(content))

\* An is_error that takes is_critical's test.
is_error_critical_only(entry) == entry.level = "CRITICAL"

\* LogEntry.is_error
is_error(entry) == entry.level \in {"ERROR", "CRITICAL"}

\* extract_errors
extract_errors(entries) == SelectSeq(entries, is_error)

\* A key that also tells threads apart.
GroupKey_with_thread(error) ==
    error.source_file \o ":" \o error.function_name \o ":" \o error.thread_id

\* The dict key group_errors_by_context builds for an error.
GroupKey(error) == error.source_file \o ":" \o error.function_name

RECURSIVE GroupKeys(_, _)
\* The keys of the groups dict in insertion order: first occurrence of each key.
GroupKeys(errors, seen) ==
    IF errors = <<>> THEN seen
    ELSE LET key == GroupKey(Head(errors))
         IN  GroupKeys(Tail(errors),
                       IF \E i \in 1..Len(seen) : seen[i] = key
                       THEN seen ELSE Append(seen, key))

\* A grouping that starts a key's bucket anew at every error of the key.
group_errors_by_context_overwriting(entries, errors) ==
    LET keys == GroupKeys(errors, <<>>)
    IN  [i \in 1..Len(keys) |->
            LET bucket == SelectSeq(errors, LAMBDA e : GroupKey(e) = keys[i])
            IN  <<bucket[Len(bucket)]>>]

\* A grouping that returns the buckets last key first.
group_errors_by_context_reversed(entries, errors) ==
    LET keys == GroupKeys(errors, <<>>)
    IN  [i \in 1..Len(keys) |->
            SelectSeq(errors, LAMBDA e : GroupKey(e) = keys[Len(keys) + 1 - i])]

\* group_errors_by_context: list(groups.values()).
group_errors_by_context(entries, errors) ==
    LET keys == GroupKeys(errors, <<>>)
    IN  [i \in 1..Len(keys) |->
            SelectSeq(errors, LAMBDA e : GroupKey(e) = keys[i])]

\* A context that takes the thread of the group's first error only.
get_full_context_for_group_first_thread(entries, error_group) ==
    SelectSeq(entries, LAMBDA e : e.thread_id = error_group[1].thread_id)

\* get_full_context_for_group
get_full_context_for_group(entries, error_group) ==
    LET thread_ids == {error_group[i].thread_id : i \in 1..Len(error_group)}
    IN  SelectSeq(entries, LAMBDA e : e.thread_id \in thread_ids)

\* Default of the context_lines parameter, which analyze_error_sync passes.
ContextLines == 5

Max(a, b) == IF a > b THEN a ELSE b

Min(a, b) == IF a < b THEN a ELSE b

\* A window whose end is one entry too far.
group_related_entries_wide(entries, target_entry, context_lines) ==
    LET same_thread == SelectSeq(entries,
                                 LAMBDA e : e.thread_id = target_entry.thread_id)
        hits == {i \in 1..Len(same_thread) :
                    same_thread[i].raw_line = target_entry.raw_line}
    IN  IF hits = {} THEN <<target_entry>>
        ELSE LET target_idx == CHOOSE i \in hits : \A j \in hits : i <= j
                 start == Max(1, target_idx - context_lines)
                 end == Min(Len(same_thread), target_idx + context_lines + 1)
             IN  SubSeq(same_thread, start, end)

\* A window over all entries, whatever their thread.
group_related_entries_unfiltered(entries, target_entry, context_lines) ==
    LET hits == {i \in 1..Len(entries) :
                    entries[i].raw_line = target_entry.raw_line}
    IN  IF hits = {} THEN <<target_entry>>
        ELSE LET target_idx == CHOOSE i \in hits : \A j \in hits : i <= j
                 start == Max(1, target_idx - context_lines)
                 end == Min(Len(entries), target_idx + context_lines)
             IN  SubSeq(entries, start, end)

\* group_related_entries; positions are 1-based here, 0-based in the code.
group_related_entries(entries, target_entry, context_lines) ==
    LET same_thread == SelectSeq(entries,
                                 LAMBDA e : e.thread_id = target_entry.thread_id)
        hits == {i \in 1..Len(same_thread) :
                    same_thread[i].raw_line = target_entry.raw_line}
    IN  IF hits = {} THEN <<target_entry>>
        ELSE LET target_idx == CHOOSE i \in hits : \A j \in hits : i <= j
                 start == Max(1, target_idx - context_lines)
                 end == Min(Len(same_thread), target_idx + context_lines)
             IN  SubSeq(same_thread, start, end)

\* ------------------------------------------------------- collaborator answers

\* What the text-generation service can do when analyze_error_sync calls it:
\* raise, answer text that is no JSON, or answer an analysis.
AnalysisAnswers ==
    {[kind |-> "raise", error_type |-> "", is_code_issue |-> TRUE, confidence |-> 0],
     [kind |-> "unparsable", error_type |-> "", is_code_issue |-> TRUE, confidence |-> 0],
     [kind |-> "json", error_type |-> "code_bug", is_code_issue |-> TRUE, confidence |-> 9],
     [kind |-> "json", error_type |-> "missing_config", is_code_issue |-> FALSE,
      confidence |-> 5]}

\* error_analyzer._parse_llm_response: the parsed dict, or the default dict.
analyzer_parse_llm_response(answer) ==
    IF answer.kind = "json"
    THEN [error_type |-> answer.error_type, is_code_issue |-> answer.is_code_issue,
          root_cause |-> "from the analysis", confidence |-> answer.confidence]
    ELSE [error_type |-> "unknown", is_code_issue |-> TRUE,
          root_cause |-> "Failed to parse LLM response", confidence |-> 0]

\* _error_type_from_string: unmapped strings become UNKNOWN.
error_type_from_string(error_type_str) ==
    IF error_type_str \in {"code_bug", "string_handling", "null_pointer",
                           "missing_config", "missing_data", "database_error",
                           "cache_error", "external_service"}
    THEN error_type_str ELSE "unknown"

\* analyze_error_sync, for an answer that does not raise: the ErrorReport.
\* confidence is in tenths.
analyze_error_sync(error_entry, all_entries, answer) ==
    LET analysis == analyzer_parse_llm_response(answer)
    IN  [primary_error |-> error_entry,
         related_entries |-> group_related_entries(all_entries, error_entry, ContextLines),
         error_type |-> error_type_from_string(analysis.error_type),
         is_code_issue |-> analysis.is_code_issue,
         root_cause |-> analysis.root_cause,
         confidence |-> analysis.confidence]

\* What the service can do when generate_fix_sync calls it.  A "json" answer
\* names a fix_type string and carries n code changes.
FixAnswers ==
    {[kind |-> "raise", fix_type |-> "", n |-> 0],
     [kind |-> "unparsable", fix_type |-> "", n |-> 0]}
    \cup [kind : {"json"}, fix_type : {"code_change", "config_change", "patch"},
          n : 0..MaxChanges]

\* fix_generator._parse_llm_response: the parsed dict, or the default dict
\* (which has no fix_type key: generate_fix_sync then reads "config_change").
fix_parse_llm_response(answer) ==
    IF answer.kind = "json"
    THEN [fix_type |-> answer.fix_type, code_changes |-> [i \in 1..answer.n |-> i],
          risk_level |-> "medium", confidence |-> 5]
    ELSE [fix_type |-> "config_change", code_changes |-> <<>>,
          risk_level |-> "high", confidence |-> 0]

\* _fix_type_from_string: unmapped strings become CODE_CHANGE.
fix_type_from_string(fix_type_str) ==
    IF fix_type_str \in {"code_change", "config_change", "data_insert",
                         "data_update", "multiple"}
    THEN fix_type_str ELSE "code_change"

\* generate_fix_sync, for an answer that does not raise: the FixProposal.
\* A code change is represented by its position in the list.
generate_fix_sync(error_report, answer) ==
    LET fix_data == fix_parse_llm_response(answer)
    IN  [fix_type |-> IF error_report.is_code_issue THEN "code_change"
                      ELSE fix_type_from_string(fix_data.fix_type),
         code_changes |-> fix_data.code_changes,
         risk_level |-> fix_data.risk_level,
         confidence |-> fix_data.confidence]

\* FixProposal.requires_pr: a code change carrying at least one CodeChange.
requires_pr(fix) == fix.fix_type = "code_change" /\ Len(fix.code_changes) > 0

\* ----------------------------------------------------------------- remediation

\* What the code host and the local checkout can do during one create_pr_node
\* run for n code changes: the repository name parses or not, the branch is
\* created or not, each change's file is absent locally, cannot be rewritten
\* (apply_code_change raises), is pushed, or fails to push, and the pull
\* request is opened or not.
GhOutcomes(n) ==
    [repo_ok : BOOLEAN, branch_ok : BOOLEAN,
     change : [1..n -> {"absent", "apply_failed", "pushed", "push_failed"}],
     pr_ok : BOOLEAN]

\* One call of the remediation: what was called, for which code change (0 for
\* none), and whether it succeeded.
Op(op, arg, ok) == [op |-> op, arg |-> arg, ok |-> ok]

RECURSIVE PushChanges_ignoring_failure(_, _, _, _)
\* A loop that goes on to the next change after a failed one.
PushChanges_ignoring_failure(code_changes, i, out, ops) ==
    IF i > Len(code_changes) THEN [ops |-> ops, raised |-> FALSE, msg |-> ""]
    ELSE IF out.change[i] = "absent"
         THEN PushChanges_ignoring_failure(code_changes, i + 1, out, ops)
    ELSE IF out.change[i] = "apply_failed"
         THEN PushChanges_ignoring_failure(code_changes, i + 1, out,
                    Append(ops, Op("apply_code_change", code_changes[i], FALSE)))
    ELSE PushChanges_ignoring_failure(code_changes, i + 1, out,
                    Append(ops, Op("push_files", code_changes[i],
                                   out.change[i] = "pushed")))

RECURSIVE PushChanges(_, _, _, _)
\* The loop over fix_proposal.code_changes: the calls made from change i on,
\* and whether apply_code_change or update_file raised, with which message.
PushChanges(code_changes, i, out, ops) ==
    IF i > Len(code_changes) THEN [ops |-> ops, raised |-> FALSE, msg |-> ""]
    ELSE IF out.change[i] = "absent"
         THEN PushChanges(code_changes, i + 1, out, ops)
    ELSE IF out.change[i] = "apply_failed"
         THEN [ops |-> Append(ops, Op("apply_code_change", code_changes[i], FALSE)),
               raised |-> TRUE, msg |-> "cannot read file"]
    ELSE IF out.change[i] = "pushed"
         THEN PushChanges(code_changes, i + 1, out,
                          Append(ops, Op("push_files", code_changes[i], TRUE)))
    ELSE [ops |-> Append(ops, Op("push_files", code_changes[i], FALSE)),
          raised |-> TRUE, msg |-> "Failed to update file"]

\* An except clause that lets the exception go on to the caller.
create_pr_except_reraising(ops, msg) ==
    [ops |-> ops, escaped |-> TRUE, pr_created |-> FALSE, pr_url |-> None,
     pr_error |-> None]

\* An except clause that records the failure without its message.
create_pr_except_without_message(ops, msg) ==
    [ops |-> ops, escaped |-> FALSE, pr_created |-> FALSE, pr_url |-> None,
     pr_error |-> None]

\* The except clause of create_pr_node: the outcome fields for an exception
\* with message msg raised after the calls ops.
create_pr_except(ops, msg) ==
    [ops |-> ops, escaped |-> FALSE, pr_created |-> FALSE, pr_url |-> None,
     pr_error |-> Some(msg)]

\* A try block that opens the pull request before it pushes the changes.
create_pr_try_pr_first(fix, out) ==
    LET branch == <<Op("create_branch", 0, out.branch_ok)>>
        pr == <<Op("create_branch", 0, TRUE),
                Op("create_pull_request", 0, out.pr_ok)>>
        pushed == PushChanges(fix.code_changes, 1, out, pr)
    IN  IF ~out.repo_ok THEN create_pr_except(<<>>, "Invalid repo_name format")
        ELSE IF ~out.branch_ok THEN create_pr_except(branch, "Failed to create branch")
        ELSE IF ~out.pr_ok THEN create_pr_except(pr, "Failed to create pull request")
        ELSE IF pushed.raised THEN create_pr_except(pushed.ops, pushed.msg)
        ELSE [ops |-> pushed.ops, escaped |-> FALSE, pr_created |-> TRUE,
              pr_url |-> Some("pr-url"), pr_error |-> None]

\* The try block of create_pr_node with its except clause: the calls made, in
\* order, and the outcome fields the node returns.
create_pr_try(fix, out) ==
    LET branch == <<Op("create_branch", 0, out.branch_ok)>>
        pushed == PushChanges(fix.code_changes, 1, out, <<Op("create_branch", 0, TRUE)>>)
        pr == Append(pushed.ops, Op("create_pull_request", 0, out.pr_ok))
    IN  IF ~out.repo_ok THEN create_pr_except(<<>>, "Invalid repo_name format")
        ELSE IF ~out.branch_ok THEN create_pr_except(branch, "Failed to create branch")
        ELSE IF pushed.raised THEN create_pr_except(pushed.ops, pushed.msg)
        ELSE IF ~out.pr_ok THEN create_pr_except(pr, "Failed to create pull request")
        ELSE [ops |-> pr, escaped |-> FALSE, pr_created |-> TRUE,
              pr_url |-> Some("pr-url"), pr_error |-> None]

\* ------------------------------------------------------------ apply_code_change

\* The characters of the files and the longest file, in characters.
FileChars == {"a", "b", "\n"}

MaxFileLen == 4

\* content = file_path.read_text()
FileContents == UNION {[1..n -> FileChars] : n \in 0..MaxFileLen}

\* The file at file_path: None when it does not exist.
Files == {None} \cup {Some(content) : content \in FileContents}

\* Largest line_start and line_end of a code change.
MaxLineNo == 3

\* The CodeChange records: original_code found in some files or in none, in
\* whitespace or not, new_code of no, one or two lines, and every pair of
\* line_start and line_end.
CodeChanges ==
    [original_code : {<<>>, <<"a">>, <<" ", "b", "\n">>, <<"c">>, <<"a", "\n", "b">>},
     new_code : {<<>>, <<"N">>, <<"N", "\n", "M">>},
     line_start : 0..MaxLineNo,
     line_end : 0..MaxLineNo]

\* str.find, 1-based: the first position of sub in cs, 0 when there is none.
Find(cs, sub) ==
    LET at == {i \in 1..(Len(cs) - Len(sub) + 1) :
                    SubSeq(cs, i, i + Len(sub) - 1) = sub}
    IN  IF at = {} THEN 0 ELSE CHOOSE i \in at : \A j \in at : i <= j

RECURSIVE split(_, _)
\* str.split(sep) for a one-character sep
split(cs, sep) ==
    LET i == Find(cs, <<sep>>)
    IN  IF i = 0 THEN <<cs>>
        ELSE <<Take(cs, i - 1)>> \o split(Drop(cs, i), sep)

RECURSIVE join(_, _)
\* sep.join(parts)
join(parts, sep) ==
    IF parts = <<>> THEN <<>>
    ELSE IF Len(parts) = 1 THEN parts[1]
    ELSE parts[1] \o <<sep>> \o join(Tail(parts), sep)

\* content.replace(old, new, 1), for old in content
replace_first(content, old, new) ==
    LET i == Find(content, old)
    IN  Take(content, i - 1) \o new \o Drop(content, i - 1 + Len(old))

\* The slices seq[:n] and seq[n:] for n >= 0
SliceTo(seq, n) == Take(seq, Min(n, Len(seq)))

SliceFrom(seq, n) == Drop(seq, Min(n, Len(seq)))

\* "\n\n/* SUGGESTED FIX:\n" and "\n*/\n"
SuggestedFixOpen ==
    <<"\n", "\n", "/", "*", " ", "S", "U", "G", "G", "E", "S", "T", "E", "D", " ",
      "F", "I", "X", ":", "\n">>

SuggestedFixClose == <<"\n", "*", "/", "\n">>

\* apply_code_change: the new content, or the exception raised.  An empty
\* original is found in every content, at its start.
apply_code_change(file, change) ==
    IF file = None THEN [error |-> "FileNotFoundError", content |-> <<>>]
    ELSE LET content == file[1]
             lines == split(content, "\n")
             original == strip(change.original_code)
             new == change.new_code
         IN  IF Find(content, original) # 0
             THEN [error |-> "", content |-> replace_first(content, original, new)]
             ELSE IF change.line_start > 0 /\ change.line_end > 0
             THEN LET start_idx == change.line_start - 1
                      end_idx == change.line_end
                      new_lines == SliceTo(lines, start_idx) \o split(new, "\n")
                                        \o SliceFrom(lines, end_idx)
                  IN  [error |-> "", content |-> join(new_lines, "\n")]
             ELSE [error |-> "",
                   content |-> content \o SuggestedFixOpen \o new
                                       \o SuggestedFixClose]

\* -------------------------------------------------------------- _parse_includes

\* A source text is a sequence of tokens: "#include", one whitespace
\* character, a quote, an angle bracket, a slash, or a run of other
\* characters, which the patterns of _parse_includes take or leave whole.
\*   #include "a.h"
QuotedInclude == <<"#include", " ", "\"", "a.h", "\"", "\n">>

\*   #include <a.h>
AngleInclude == <<"#include", " ", "<", "a.h", ">", "\n">>

\*   #include "d/a.h"
QuotedPathInclude == <<"#include", " ", "\"", "d", "/", "a.h", "\"", "\n">>

\*   #include<../d/a.h>
AnglePathInclude ==
    <<"#include", "<", "..", "/", "d", "/", "a.h", ">", "\n">>

\*   #include "b.h"
OtherInclude == <<"#include", " ", "\"", "b.h", "\"", "\n">>

\*   void main() {}
CodeLine == <<"void main() {}", "\n">>

\* An include whose quote is not closed on its line.
\*   #include "a.h
UnclosedInclude == <<"#include", " ", "\"", "a.h", "\n">>

IncludeLines ==
    {QuotedInclude, AngleInclude, QuotedPathInclude, AnglePathInclude,
     OtherInclude, CodeLine, UnclosedInclude}

\* Longest source text, in lines.
MaxIncludeLines == 3

RECURSIVE Flatten(_)
\* The text made of the given lines.
Flatten(parts) == IF parts = <<>> THEN <<>> ELSE Head(parts) \o Flatten(Tail(parts))

SourceTexts ==
    {Flatten(parts) : parts \in UNION {[1..n -> IncludeLines] : n \in 0..MaxIncludeLines}}

\* The first position after j of the token close, 0 when there is none.
FindClose(ts, j, close) ==
    LET at == {k \in (j + 1)..Len(ts) : ts[k] = close}
    IN  IF at = {} THEN 0 ELSE CHOOSE k \in at : \A l \in at : k <= l

RECURSIVE findall_include(_, _, _, _)
\* re.findall of #include\s*<open>([^<close>]+)<close> from position i on: the
\* groups of the non-overlapping matches, left to right.
findall_include(ts, i, open, close) ==
    IF i > Len(ts) THEN <<>>
    ELSE IF ts[i] # "#include" THEN findall_include(ts, i + 1, open, close)
    ELSE LET j == i + 1 + SpanIn(Drop(ts, i), Whitespace)
             k == IF j <= Len(ts) /\ ts[j] = open THEN FindClose(ts, j, close) ELSE 0
         IN  IF k > j + 1
             THEN <<SubSeq(ts, j + 1, k - 1)>> \o findall_include(ts, k + 1, open, close)
             ELSE findall_include(ts, i + 1, open, close)

\* match.split('/')[-1]
filename_of(match) ==
    LET slashes == {x \in 1..Len(match) : match[x] = "/"}
    IN  IF slashes = {} THEN Str(match)
        ELSE Str(Drop(match, CHOOSE x \in slashes : \A y \in slashes : y <= x))

RECURSIVE append_new(_, _)
\* The inner loop: each match's file name is appended unless already there.
append_new(includes, matches) ==
    IF matches = <<>> THEN includes
    ELSE LET filename == filename_of(Head(matches))
         IN  append_new(IF \E i \in 1..Len(includes) : includes[i] = filename
                        THEN includes ELSE Append(includes, filename),
                        Tail(matches))

\* A parser that keeps one list per pattern.
_parse_includes_per_pattern(source_code) ==
    append_new(<<>>, findall_include(source_code, 1, "\"", "\""))
        \o append_new(<<>>, findall_include(source_code, 1, "<", ">"))

\* _parse_includes: the quoted includes, then the angle-bracket ones.
_parse_includes(source_code) ==
    append_new(append_new(<<>>, findall_include(source_code, 1, "\"", "\"")),
               findall_include(source_code, 1, "<", ">"))

\* ---------------------------------------------------------------------- state

VARIABLES
    input_kind,             \* which of log_content / log_file_path the caller set
    log_text,               \* the log text supplied (in the state or in the file), as indices in LineTable
    has_github_access,      \* config.has_github_access
    cli_args,               \* the analyze command's options, None for a graph run
    call,                   \* the last call of a parsing function on its own, or None
    log_entries,            \* AgentState fields
    error_entries,
    error_groups,
    current_error_index,
    total_errors,
    current_error_report,
    fix_proposal,
    user_approved,
    pr_url,
    pr_created,
    pr_error,
    analysis_complete,
    node,                   \* the node to run next, or the node just run while suspended
    run,                    \* "running", "suspended", "done" or "failed"
    raised,                 \* the exception that ended a failed run, "" if none
    decision,               \* the approval decision supplied for the current error
    gh_ops,                 \* code-host calls made for the current error
    analysed,               \* the errors handed to the analysis, in call order
    offered,                \* the positions that reached the suspend point
    stages,                 \* the stages run for the current error, in order
    analysis_answer,        \* what the service did at the current error's analysis
    fix_answer,             \* what the service did at the current error's fix generation
    advances                \* how many times advance_error has run

vars ==
    <<input_kind, log_text, has_github_access, cli_args, call, log_entries,
      error_entries,
      error_groups, current_error_index, total_errors, current_error_report,
      fix_proposal, user_approved, pr_url, pr_created, pr_error,
      analysis_complete, node, run, raised, decision, gh_ops, analysed, offered, stages,
      analysis_answer, fix_answer, advances>>

inputVars == <<input_kind, log_text, has_github_access, cli_args, call>>

parsedVars == <<log_entries, error_entries, error_groups, total_errors>>

prVars == <<pr_url, pr_created, pr_error>>

historyVars ==
    <<decision, gh_ops, analysed, offered, stages, analysis_answer, fix_answer,
      advances>>

\* ----------------------------------------------------------------- the graph

\* A routing that also continues when the cursor equals the count.
should_continue_processing_inclusive(index, total) ==
    IF index <= total THEN "analyze" ELSE "done"

\* should_continue_processing
should_continue_processing(index, total) ==
    IF index < total THEN "analyze" ELSE "done"

\* A routing that does not read user_approved.
should_create_pr_unapproved(approved, fix) ==
    IF fix = None \/ ~requires_pr(fix[1]) THEN "skip_pr" ELSE "create_pr"

\* A routing that does not read requires_pr.
should_create_pr_any_fix(approved, fix) ==
    IF ~approved THEN "next_error"
    ELSE IF fix = None THEN "skip_pr"
    ELSE "create_pr"

\* A routing with the skip_pr test inverted.
should_create_pr_inverted(approved, fix) ==
    IF ~approved THEN "next_error"
    ELSE IF fix = None \/ requires_pr(fix[1]) THEN "skip_pr"
    ELSE "create_pr"

\* should_create_pr
should_create_pr(approved, fix) ==
    IF ~approved THEN "next_error"
    ELSE IF fix = None \/ ~requires_pr(fix[1]) THEN "skip_pr"
    ELSE "create_pr"

\* Edges on which create_pr leads back to analyze_error, not to advance_error.
NextNode_without_advance(n, index, total, approved, fix) ==
    CASE n = "parse_logs" ->
            [analyze |-> "analyze_error", done |-> "END"]
                [should_continue_processing(index, total)]
      [] n = "analyze_error" -> "generate_fix"
      [] n = "generate_fix" ->
            [create_pr |-> "create_pr", skip_pr |-> "advance_error",
             next_error |-> "advance_error"][should_create_pr(approved, fix)]
      [] n = "create_pr" -> "analyze_error"
      [] n = "advance_error" ->
            [analyze |-> "analyze_error", done |-> "END"]
                [should_continue_processing(index, total)]

\* The edges create_agent_graph adds: the node that follows node n in the
\* given state ("END" ends the run).
NextNode(n, index, total, approved, fix) ==
    CASE n = "parse_logs" ->
            [analyze |-> "analyze_error", done |-> "END"]
                [should_continue_processing(index, total)]
      [] n = "analyze_error" -> "generate_fix"
      [] n = "generate_fix" ->
            [create_pr |-> "create_pr", skip_pr |-> "advance_error",
             next_error |-> "advance_error"][should_create_pr(approved, fix)]
      [] n = "create_pr" -> "advance_error"
      [] n = "advance_error" ->
            [analyze |-> "analyze_error", done |-> "END"]
                [should_continue_processing(index, total)]

\* A compiled graph that never interrupts.
interrupt_after_nothing == {}

\* compile_agent: the nodes after which the compiled graph interrupts.
interrupt_after == {"generate_fix"}

\* The engine after node n has run in the primed state: it interrupts after a
\* node of interrupt_after, leaving the routing to the resumption, and
\* otherwise follows the edge out of n.
Proceed(n) ==
    IF n \in interrupt_after
    THEN node' = n /\ run' = "suspended" /\ UNCHANGED raised
    ELSE LET nxt == NextNode(n, current_error_index', total_errors',
                             user_approved', fix_proposal')
         IN  /\ node' = nxt /\ run' = IF nxt = "END" THEN "done" ELSE "running"
             /\ UNCHANGED raised

\* A node raised exc: the exception leaves the graph and the run is over.
Raise(exc) == node' = node /\ run' = "failed" /\ raised' = exc

\* ------------------------------------------------------------------- actions

\* The state run_agent_single_error builds and hands to the compiled graph:
\* current_error_index 0, user_approved False, the other fields unset.  The
\* caller supplies log_content, or a log_file_path (of a file that exists or
\* not), or neither.
Init ==
    /\ input_kind \in {"content", "file", "missing_file", "none"}
    /\ log_text \in LogTexts
    /\ input_kind = "content" => log_text # <<>>
    /\ input_kind \in {"missing_file", "none"} => log_text = <<>>
    /\ has_github_access \in BOOLEAN
    /\ cli_args = None
    /\ call = None
    /\ log_entries = <<>>
    /\ error_entries = <<>>
    /\ error_groups = <<>>
    /\ current_error_index = 0
    /\ total_errors = 0
    /\ current_error_report = None
    /\ fix_proposal = None
    /\ user_approved = FALSE
    /\ pr_url = None
    /\ pr_created = FALSE
    /\ pr_error = None
    /\ analysis_complete = FALSE
    /\ node = "parse_logs"
    /\ run = "running"
    /\ raised = ""
    /\ decision = "none"
    /\ gh_ops = <<>>
    /\ analysed = <<>>
    /\ offered = {}
    /\ stages = <<>>
    /\ analysis_answer = "none"
    /\ fix_answer = "none"
    /\ advances = 0

\* An input reading that takes a missing input for an empty log text.
read_log_input_unvalidated(kind, text) ==
    IF kind \in {"content", "file", "none"} THEN [error |-> "", text |-> text]
    ELSE [error |-> "FileNotFoundError", text |-> <<>>]

\* An input reading that takes a missing log file for an empty one.
read_log_input_missing_as_empty(kind, text) ==
    IF kind \in {"content", "file", "missing_file"} THEN [error |-> "", text |-> text]
    ELSE [error |-> "ValueError", text |-> <<>>]

\* The input selection of parse_logs_node with parse_log_file's existence
\* check: the log text to parse, or the exception raised.
read_log_input(kind, text) ==
    IF kind = "content" THEN [error |-> "", text |-> text]
    ELSE IF kind = "file" THEN [error |-> "", text |-> text]
    ELSE IF kind = "missing_file" THEN [error |-> "FileNotFoundError", text |-> <<>>]
    ELSE [error |-> "ValueError", text |-> <<>>]

\* parse_logs_node
ParseLogs ==
    /\ node = "parse_logs" /\ run = "running"
    /\ LET input == read_log_input(input_kind, Content(log_text))
       IN  IF input.error # ""
           THEN /\ Raise(input.error)
                /\ UNCHANGED <<parsedVars, current_error_index>>
           ELSE LET entries == parse_log_content(input.text)
                    errors == extract_errors(entries)
                IN  /\ log_entries' = entries
                    /\ error_entries' = errors
                    /\ error_groups' = group_errors_by_context(entries, errors)
                    /\ current_error_index' = 0
                    /\ total_errors' = Len(errors)
                    /\ Proceed("parse_logs")
    /\ UNCHANGED <<inputVars, current_error_report, fix_proposal, user_approved,
                   prVars, analysis_complete, historyVars>>

\* analyze_error_node; error_entries[index] is error_entries[index + 1] here.
AnalyzeError ==
    /\ node = "analyze_error" /\ run = "running"
    /\ IF current_error_index >= Len(error_entries)
       THEN /\ current_error_report' = None
            /\ analysis_complete' = TRUE
            /\ UNCHANGED <<analysed, analysis_answer>>
            /\ UNCHANGED <<current_error_index, total_errors, user_approved, fix_proposal>>
            /\ Proceed("analyze_error")
       ELSE LET current_error == error_entries[current_error_index + 1]
            IN  \E answer \in AnalysisAnswers :
                    /\ analysed' = Append(analysed, current_error)
                    /\ analysis_answer' = answer.kind
                    /\ IF answer.kind = "raise"
                       THEN /\ Raise("LLM error")
                            /\ UNCHANGED <<current_error_report, analysis_complete>>
                       ELSE /\ current_error_report' =
                                    Some(analyze_error_sync(current_error, log_entries, answer))
                            /\ analysis_complete' = FALSE
                            /\ UNCHANGED <<current_error_index, total_errors,
                                           user_approved, fix_proposal>>
                            /\ Proceed("analyze_error")
    /\ stages' = Append(stages, "analyze_error")
    /\ UNCHANGED <<inputVars, parsedVars, current_error_index, fix_proposal,
                   user_approved, prVars, decision, gh_ops, offered, fix_answer,
                   advances>>

\* generate_fix_node
GenerateFix ==
    /\ node = "generate_fix" /\ run = "running"
    /\ IF current_error_report = None
       THEN /\ fix_proposal' = None
            /\ UNCHANGED <<current_error_index, total_errors, user_approved,
                           fix_answer>>
            /\ Proceed("generate_fix")
       ELSE \E answer \in FixAnswers :
                /\ fix_answer' = answer.kind
                /\ IF answer.kind = "raise"
                   THEN Raise("LLM error") /\ UNCHANGED fix_proposal
                   ELSE /\ fix_proposal' =
                               Some(generate_fix_sync(current_error_report[1], answer))
                        /\ UNCHANGED <<current_error_index, total_errors, user_approved>>
                        /\ Proceed("generate_fix")
    /\ offered' = IF run' = "suspended" THEN offered \cup {current_error_index}
                  ELSE offered
    /\ stages' = stages \o <<"generate_fix">>
                        \o (IF run' = "suspended" THEN <<"suspend">> ELSE <<>>)
    /\ UNCHANGED <<inputVars, parsedVars, current_error_index, current_error_report,
                   user_approved, prVars, analysis_complete, decision, gh_ops,
                   analysed, analysis_answer, advances>>

\* A resumption that runs the graph again from its entry point.
Resume_from_entry_point(approved) ==
    /\ run = "suspended"
    /\ user_approved' = approved
    /\ decision' = IF approved THEN "approved" ELSE "rejected"
    /\ node' = "parse_logs" /\ run' = "running"
    /\ UNCHANGED <<raised, inputVars, parsedVars, current_error_index, current_error_report,
                   fix_proposal, prVars, analysis_complete, gh_ops, analysed,
                   offered, stages, analysis_answer, fix_answer, advances>>

\* The caller answers the interrupt: it sets user_approved to its decision and
\* resumes the graph, which routes out of the node it interrupted after.
Resume(approved) ==
    /\ run = "suspended"
    /\ user_approved' = approved
    /\ decision' = IF approved THEN "approved" ELSE "rejected"
    /\ LET nxt == NextNode(node, current_error_index, total_errors, approved,
                           fix_proposal)
       IN  node' = nxt /\ run' = IF nxt = "END" THEN "done" ELSE "running"
    /\ UNCHANGED <<raised, inputVars, parsedVars, current_error_index, current_error_report,
                   fix_proposal, prVars, analysis_complete, gh_ops, analysed,
                   offered, stages, analysis_answer, fix_answer, advances>>

\* create_pr_node
CreatePr ==
    /\ node = "create_pr" /\ run = "running"
    /\ UNCHANGED <<current_error_index, total_errors, user_approved, fix_proposal>>
    /\ LET refused(msg) ==
               /\ pr_created' = FALSE
               /\ pr_url' = None
               /\ pr_error' = Some(msg)
               /\ UNCHANGED gh_ops
               /\ Proceed("create_pr")
       IN  IF ~user_approved \/ fix_proposal = None
           THEN refused("Fix not approved or no fix available")
           ELSE IF ~requires_pr(fix_proposal[1])
           THEN refused("This fix does not require a PR (config/data change)")
           ELSE IF ~has_github_access
           THEN refused("GitHub access not configured")
           ELSE \E result \in {create_pr_try(fix_proposal[1], out) :
                                out \in GhOutcomes(Len(fix_proposal[1].code_changes))} :
                    /\ gh_ops' = result.ops
                    /\ IF result.escaped
                       THEN Raise("remediation error") /\ UNCHANGED prVars
                       ELSE /\ pr_created' = result.pr_created
                            /\ pr_url' = result.pr_url
                            /\ pr_error' = result.pr_error
                            /\ Proceed("create_pr")
    /\ stages' = Append(stages, "create_pr")
    /\ UNCHANGED <<inputVars, parsedVars, current_error_report, analysis_complete,
                   decision, analysed, offered, analysis_answer, fix_answer,
                   advances>>

\* An advance that steps over an error.
next_error_index_skipping(current_index) == current_index + 2

\* advance_to_next_error: the new current_error_index.
next_error_index(current_index) == current_index + 1

\* An advance that leaves the approval and the outcome fields as they were.
AdvanceError_keeping_fields ==
    /\ node = "advance_error" /\ run = "running"
    /\ current_error_index' = next_error_index(current_error_index)
    /\ current_error_report' = None
    /\ fix_proposal' = None
    /\ UNCHANGED <<user_approved, prVars>>
    /\ UNCHANGED total_errors
    /\ Proceed("advance_error")
    /\ decision' = "none"
    /\ gh_ops' = <<>>
    /\ stages' = <<>>
    /\ analysis_answer' = "none"
    /\ fix_answer' = "none"
    /\ advances' = advances + 1
    /\ UNCHANGED <<inputVars, parsedVars, analysis_complete, analysed, offered>>

\* advance_to_next_error
AdvanceError ==
    /\ node = "advance_error" /\ run = "running"
    /\ current_error_index' = next_error_index(current_error_index)
    /\ current_error_report' = None
    /\ fix_proposal' = None
    /\ user_approved' = FALSE
    /\ pr_url' = None
    /\ pr_created' = FALSE
    /\ pr_error' = None
    /\ UNCHANGED total_errors
    /\ Proceed("advance_error")
    /\ decision' = "none"
    /\ gh_ops' = <<>>
    /\ stages' = <<>>
    /\ analysis_answer' = "none"
    /\ fix_answer' = "none"
    /\ advances' = advances + 1
    /\ UNCHANGED <<inputVars, parsedVars, analysis_complete, analysed, offered>>

Next ==
    \/ ParseLogs
    \/ AnalyzeError
    \/ GenerateFix
    \/ \E approved \in BOOLEAN : Resume(approved)
    \/ CreatePr
    \/ AdvanceError

Spec == Init /\ [][Next]_vars

\* --------------------------------------------------------- the analyze command

\* The options of the analyze command, with config.is_configured.
CliArgs == [dry_run : BOOLEAN, interactive : BOOLEAN, is_configured : BOOLEAN]

\* A log_input that names no existing file, read as one line of log content.
\*   logs/x.o
PathLine ==
    <<"l", "o", "g", "s", "/", "x", ".", "o">>

\* analyze's choice between a file path and raw content: the log content the
\* command goes on with, or the exception raised while reading.  An empty
\* log_input is the path of the current directory, which exists and cannot
\* be read as a file.
cli_log_content(kind, text) ==
    IF kind = "file" THEN [error |-> "", text |-> text]
    ELSE IF kind = "content" THEN [error |-> "", text |-> text]
    ELSE IF kind = "missing_file" THEN [error |-> "", text |-> <<PathLine>>]
    ELSE [error |-> "IsADirectoryError", text |-> <<>>]

\* The command is at position n next; at "END" it has returned.
CliGoto(n) ==
    /\ node' = n /\ run' = IF n = "END" THEN "done" ELSE "running"
    /\ UNCHANGED raised

\* The for loop over error_groups takes its next group, or ends after the last.
CliNextIssue ==
    IF current_error_index + 1 < Len(error_groups)
    THEN current_error_index' = current_error_index + 1 /\ CliGoto("cli_issue")
    ELSE UNCHANGED current_error_index /\ CliGoto("END")

\* The end of the loop body: the continue prompt unless this was the last group.
CliLoopBottom ==
    /\ UNCHANGED current_error_index
    /\ CliGoto(IF current_error_index + 1 < Len(error_groups)
               THEN "cli_continue" ELSE "END")

CliInit ==
    /\ input_kind \in {"content", "file", "missing_file", "none"}
    /\ log_text \in LogTexts
    /\ input_kind = "content" => log_text # <<>>
    /\ input_kind \in {"missing_file", "none"} => log_text = <<>>
    /\ has_github_access \in BOOLEAN
    /\ cli_args \in {Some(a) : a \in CliArgs}
    /\ call = None
    /\ log_entries = <<>>
    /\ error_entries = <<>>
    /\ error_groups = <<>>
    /\ current_error_index = 0
    /\ total_errors = 0
    /\ current_error_report = None
    /\ fix_proposal = None
    /\ user_approved = FALSE
    /\ pr_url = None
    /\ pr_created = FALSE
    /\ pr_error = None
    /\ analysis_complete = FALSE
    /\ node = "cli_analyze"
    /\ run = "running"
    /\ raised = ""
    /\ decision = "none"
    /\ gh_ops = <<>>
    /\ analysed = <<>>
    /\ offered = {}
    /\ stages = <<>>
    /\ analysis_answer = "none"
    /\ fix_answer = "none"
    /\ advances = 0

\* The analyze command up to its first collaborator call: the log content is
\* chosen and parsed; batch mode lists the errors and returns, interactive
\* mode (run_interactive_analysis) returns when unconfigured or when there is
\* no error, and otherwise groups the errors and enters the loop.
analyze ==
    /\ node = "cli_analyze" /\ run = "running"
    /\ LET args == cli_args[1]
           input == cli_log_content(input_kind, Content(log_text))
           entries == parse_log_content(input.text)
           errors == extract_errors(entries)
       IN  IF input.error # ""
           THEN /\ Raise(input.error)
                /\ UNCHANGED parsedVars
           ELSE IF args.interactive /\ ~args.is_configured
           THEN /\ CliGoto("END")
                /\ UNCHANGED parsedVars
           ELSE /\ log_entries' = entries
                /\ error_entries' = errors
                /\ total_errors' = Len(errors)
                /\ IF errors = <<>> \/ ~args.interactive
                   THEN /\ CliGoto("END")
                        /\ UNCHANGED error_groups
                   ELSE /\ error_groups' = group_errors_by_context(entries, errors)
                        /\ CliGoto("cli_issue")
    /\ UNCHANGED <<inputVars, current_error_index, current_error_report,
                   fix_proposal, user_approved, prVars, analysis_complete,
                   historyVars>>

\* run_interactive_analysis, the analysis of the current group: the primary
\* error is analysed with the entries of the group's threads; an exception
\* is printed and the loop goes on with the next group.
InteractiveAnalyze ==
    /\ node = "cli_issue" /\ run = "running"
    /\ LET error_group == error_groups[current_error_index + 1]
           primary_error == error_group[1]
           context_entries == get_full_context_for_group(log_entries, error_group)
       IN  \E answer \in AnalysisAnswers :
               /\ analysed' = Append(analysed, primary_error)
               /\ analysis_answer' = answer.kind
               /\ IF answer.kind = "raise"
                  THEN /\ UNCHANGED current_error_report
                       /\ CliNextIssue
                  ELSE LET report == analyze_error_sync(primary_error,
                                                        context_entries, answer)
                       IN  /\ current_error_report' = Some(
                                 IF Len(error_group) > 1
                                 THEN [report EXCEPT !.root_cause =
                                          "[Group of " \o ToString(Len(error_group))
                                          \o " related errors]\n\n" \o @]
                                 ELSE report)
                           /\ UNCHANGED current_error_index
                           /\ CliGoto("cli_fix")
    /\ stages' = <<"analyze_error">>
    /\ decision' = "none"
    /\ gh_ops' = <<>>
    /\ fix_answer' = "none"
    /\ UNCHANGED <<inputVars, parsedVars, fix_proposal, user_approved, prVars,
                   analysis_complete, offered, advances>>

\* A loop body that does not read dry_run.
InteractiveGenerateFix_ignoring_dry_run ==
    /\ node = "cli_fix" /\ run = "running"
    /\ \E answer \in FixAnswers :
           /\ fix_answer' = answer.kind
           /\ IF answer.kind = "raise"
              THEN /\ UNCHANGED <<fix_proposal, offered>>
                   /\ CliNextIssue
              ELSE LET fix == generate_fix_sync(current_error_report[1], answer)
                   IN  /\ fix_proposal' = Some(fix)
                       /\ IF requires_pr(fix) /\ has_github_access
                          THEN /\ offered' = offered \cup {current_error_index}
                               /\ UNCHANGED current_error_index
                               /\ CliGoto("cli_confirm")
                          ELSE /\ UNCHANGED offered
                               /\ CliLoopBottom
    /\ stages' = Append(stages, "generate_fix")
    /\ UNCHANGED <<inputVars, parsedVars, current_error_report, user_approved,
                   prVars, analysis_complete, decision, gh_ops, analysed,
                   analysis_answer, advances>>

\* run_interactive_analysis, the fix for the current report: an exception is
\* printed and the loop goes on; a dry run asks only whether to continue; a
\* fix that requires a PR, with GitHub access, is offered for confirmation.
InteractiveGenerateFix ==
    /\ node = "cli_fix" /\ run = "running"
    /\ \E answer \in FixAnswers :
           /\ fix_answer' = answer.kind
           /\ IF answer.kind = "raise"
              THEN /\ UNCHANGED <<fix_proposal, offered>>
                   /\ CliNextIssue
              ELSE LET fix == generate_fix_sync(current_error_report[1], answer)
                   IN  /\ fix_proposal' = Some(fix)
                       /\ IF cli_args[1].dry_run
                          THEN /\ UNCHANGED <<current_error_index, offered>>
                               /\ CliGoto("cli_continue")
                          ELSE IF requires_pr(fix) /\ has_github_access
                          THEN /\ offered' = offered \cup {current_error_index}
                               /\ UNCHANGED current_error_index
                               /\ CliGoto("cli_confirm")
                          ELSE /\ UNCHANGED offered
                               /\ CliLoopBottom
    /\ stages' = Append(stages, "generate_fix")
    /\ UNCHANGED <<inputVars, parsedVars, current_error_report, user_approved,
                   prVars, analysis_complete, decision, gh_ops, analysed,
                   analysis_answer, advances>>

\* The answer to "Create a PR with this fix?".
InteractiveConfirm(approved) ==
    /\ node = "cli_confirm" /\ run = "running"
    /\ user_approved' = approved
    /\ decision' = IF approved THEN "approved" ELSE "rejected"
    /\ IF approved
       THEN UNCHANGED current_error_index /\ CliGoto("cli_create_pr")
       ELSE CliLoopBottom
    /\ UNCHANGED <<inputVars, parsedVars, current_error_report, fix_proposal,
                   prVars, analysis_complete, gh_ops, analysed, offered, stages,
                   analysis_answer, fix_answer, advances>>

\* The PR creation of run_interactive_analysis: the same calls as the
\* create_pr node, every exception printed.
InteractiveCreatePr ==
    /\ node = "cli_create_pr" /\ run = "running"
    /\ LET fix == fix_proposal[1]
       IN  \E result \in {create_pr_try(fix, out) :
                            out \in GhOutcomes(Len(fix.code_changes))} :
               /\ gh_ops' = result.ops
               /\ IF result.escaped
                  THEN /\ Raise("remediation error")
                       /\ UNCHANGED <<prVars, current_error_index>>
                  ELSE /\ pr_created' = result.pr_created
                       /\ pr_url' = result.pr_url
                       /\ pr_error' = result.pr_error
                       /\ CliLoopBottom
    /\ stages' = Append(stages, "create_pr")
    /\ UNCHANGED <<inputVars, parsedVars, current_error_report, fix_proposal,
                   user_approved, analysis_complete, decision, analysed, offered,
                   analysis_answer, fix_answer, advances>>

\* The answer to "Continue to next issue?": no leaves the loop.
InteractiveContinue(answer) ==
    /\ node = "cli_continue" /\ run = "running"
    /\ IF answer
       THEN CliNextIssue
       ELSE UNCHANGED current_error_index /\ CliGoto("END")
    /\ UNCHANGED <<inputVars, parsedVars, current_error_report, fix_proposal,
                   user_approved, prVars, analysis_complete, historyVars>>

CliNext ==
    \/ analyze
    \/ InteractiveAnalyze
    \/ InteractiveGenerateFix
    \/ \E approved \in BOOLEAN : InteractiveConfirm(approved)
    \/ InteractiveCreatePr
    \/ \E answer \in BOOLEAN : InteractiveContinue(answer)

\* Both entry paths: a run of the graph, or a run of the analyze command.
AgentSpec == (Init \/ CliInit) /\ [][Next \/ CliNext]_vars

\* ------------------------------------------- the parsing functions on their own

\* The functions of log_parser.py called directly, as the tests call them: a
\* log text is parsed, its errors extracted and grouped, and the context
\* functions are applied to the results.
ParserInit ==
    /\ input_kind = "content"
    /\ log_text \in ParserTexts
    /\ has_github_access = FALSE
    /\ cli_args = None
    /\ call = None
    /\ log_entries = <<>>
    /\ error_entries = <<>>
    /\ error_groups = <<>>
    /\ current_error_index = 0
    /\ total_errors = 0
    /\ current_error_report = None
    /\ fix_proposal = None
    /\ user_approved = FALSE
    /\ pr_url = None
    /\ pr_created = FALSE
    /\ pr_error = None
    /\ analysis_complete = FALSE
    /\ node = "parse_log_content"
    /\ run = "running"
    /\ raised = ""
    /\ decision = "none"
    /\ gh_ops = <<>>
    /\ analysed = <<>>
    /\ offered = {}
    /\ stages = <<>>
    /\ analysis_answer = "none"
    /\ fix_answer = "none"
    /\ advances = 0

parserFrame ==
    <<input_kind, log_text, has_github_access, cli_args, current_error_index,
      total_errors, current_error_report, fix_proposal, user_approved, prVars,
      analysis_complete, run, raised, historyVars>>

\* entries = parse_log_content(content)
CallParseLogContent ==
    /\ node = "parse_log_content"
    /\ log_entries' = parse_log_content(Content(log_text))
    /\ node' = "extract_errors"
    /\ UNCHANGED <<parserFrame, call, error_entries, error_groups>>

\* errors = extract_errors(entries)
CallExtractErrors ==
    /\ node = "extract_errors"
    /\ error_entries' = extract_errors(log_entries)
    /\ node' = "group_errors_by_context"
    /\ UNCHANGED <<parserFrame, call, log_entries, error_groups>>

\* error_groups = group_errors_by_context(entries, errors)
CallGroupErrorsByContext ==
    /\ node = "group_errors_by_context"
    /\ error_groups' = group_errors_by_context(log_entries, error_entries)
    /\ node' = "context"
    /\ UNCHANGED <<parserFrame, call, log_entries, error_entries>>

\* get_full_context_for_group(entries, error_groups[g])
CallGetFullContextForGroup(g) ==
    /\ node = "context" /\ call = None
    /\ g \in 1..Len(error_groups)
    /\ call' = Some([fn |-> "get_full_context_for_group",
                     error_group |-> error_groups[g],
                     result |-> get_full_context_for_group(log_entries,
                                                           error_groups[g])])
    /\ UNCHANGED <<parserFrame, node, parsedVars>>

\* Entries that need not be in the parsed text.
ForeignTargets == {parse_log_line(ErrorLine)[1], parse_log_line(CriticalLine)[1]}

\* The entries a caller can pass as target_entry: one of the parsed entries,
\* or an entry parsed from elsewhere.
Targets == {log_entries[i] : i \in 1..Len(log_entries)} \cup ForeignTargets

\* group_related_entries(entries, target_entry, context_lines)
CallGroupRelatedEntries(target_entry, context_lines) ==
    /\ node = "context" /\ call = None
    /\ call' = Some([fn |-> "group_related_entries",
                     target_entry |-> target_entry,
                     context_lines |-> context_lines,
                     result |-> group_related_entries(log_entries, target_entry,
                                                      context_lines)])
    /\ UNCHANGED <<parserFrame, node, parsedVars>>

\* parse_log_line(line), for line i of the text
CallParseLogLine(i) ==
    /\ node = "context" /\ call = None
    /\ i \in 1..Len(log_text)
    /\ LET line == LineTable[log_text[i]]
       IN  call' = Some([fn |-> "parse_log_line", line |-> line,
                           result |-> parse_log_line(line)])
    /\ UNCHANGED <<parserFrame, node, parsedVars>>

ParserNext ==
    \/ CallParseLogContent
    \/ CallExtractErrors
    \/ CallGroupErrorsByContext
    \/ \E g \in 1..MaxParserLines + 1 : CallGetFullContextForGroup(g)
    \/ \E target_entry \in Targets, context_lines \in 0..MaxRadius :
           CallGroupRelatedEntries(target_entry, context_lines)
    \/ \E i \in 1..MaxParserLines + 1 : CallParseLogLine(i)

ParserSpec == ParserInit /\ [][ParserNext]_vars

\* ------------------------------------------------ the file functions on their own

\* apply_code_change and _parse_includes called directly, as the tests call
\* _parse_includes: one call per behaviour, nothing else in the state moves.
FunctionInit ==
    /\ input_kind = "none"
    /\ log_text = <<>>
    /\ has_github_access = FALSE
    /\ cli_args = None
    /\ call = None
    /\ log_entries = <<>>
    /\ error_entries = <<>>
    /\ error_groups = <<>>
    /\ current_error_index = 0
    /\ total_errors = 0
    /\ current_error_report = None
    /\ fix_proposal = None
    /\ user_approved = FALSE
    /\ pr_url = None
    /\ pr_created = FALSE
    /\ pr_error = None
    /\ analysis_complete = FALSE
    /\ node = "functions"
    /\ run = "running"
    /\ raised = ""
    /\ decision = "none"
    /\ gh_ops = <<>>
    /\ analysed = <<>>
    /\ offered = {}
    /\ stages = <<>>
    /\ analysis_answer = "none"
    /\ fix_answer = "none"
    /\ advances = 0

\* apply_code_change(file_path, change)
CallApplyCodeChange ==
    /\ node = "functions" /\ call = None
    /\ \E file \in Files, change \in CodeChanges :
           call' = Some([fn |-> "apply_code_change", file |-> file,
                         change |-> change,
                         result |-> apply_code_change(file, change)])
    /\ UNCHANGED <<parserFrame, node, parsedVars>>

\* _parse_includes(source_code)
CallParseIncludes ==
    /\ node = "functions" /\ call = None
    /\ \E source_code \in SourceTexts :
           call' = Some([fn |-> "_parse_includes", source_code |-> source_code,
                         result |-> _parse_includes(source_code)])
    /\ UNCHANGED <<parserFrame, node, parsedVars>>

FunctionNext ==
    \/ CallApplyCodeChange
    \/ CallParseIncludes

FunctionSpec == FunctionInit /\ [][FunctionNext]_vars

\* ---------------------------------------------------------------------- claims

\* C1: the create_pr stage runs for an error, and calls the code host (branch,
\* push, pull request), only if the caller supplied the decision "approved"
\* for that error at its suspend point after generate_fix; with no decision or
\* a rejection the stage is not entered and no call is made.
C1_RemediationOnlyAfterApproval ==
    /\ (node = "create_pr" /\ run = "running") =>
            decision = "approved" /\ current_error_index \in offered
    /\ gh_ops # <<>> => decision = "approved" /\ current_error_index \in offered

\* C1 witness: an approved fix was pushed and its pull request opened.
C1_Witness ==
    decision = "approved" /\ pr_created /\ Len(gh_ops) >= 3

\* C2: once generate_fix has completed the engine is suspended; while it is
\* suspended nothing has been decided, remediated or advanced for the current
\* error, and the only step it takes is the caller's resumption with a
\* decision; generate_fix is the only node after which it suspends.
C2_SuspendsOnlyAfterGenerateFix ==
    /\ [](run = "suspended" =>
            /\ node = "generate_fix"
            /\ decision = "none" /\ gh_ops = <<>>
            /\ advances = current_error_index)
    /\ [][(node = "generate_fix" /\ run = "running" /\ run' # "failed")
            => run' = "suspended" /\ node' = "generate_fix"]_vars
    /\ [][run = "suspended" =>
            /\ decision' \in {"approved", "rejected"}
            /\ user_approved' = (decision' = "approved")
            /\ UNCHANGED <<current_error_index, current_error_report, fix_proposal,
                           prVars, gh_ops, analysed, advances>>]_vars

\* C2 witness: the engine is suspended with a generated fix awaiting a decision.
C2_Witness ==
    run = "suspended" /\ fix_proposal # None /\ current_error_index >= 1

\* C3: on resume after generate_fix the next node is advance_error when the
\* decision is false, advance_error when it is true but the fix is absent or
\* not remediable automatically (requires_pr false), and create_pr otherwise.
C3_ResumeRouting ==
    [][(run = "suspended" /\ node = "generate_fix") =>
            node' = IF ~user_approved' THEN "advance_error"
                    ELSE IF fix_proposal = None THEN "advance_error"
                    ELSE IF ~requires_pr(fix_proposal[1]) THEN "advance_error"
                    ELSE "create_pr"]_vars

\* C3 witness: a resumption with approval of a remediable fix routed to create_pr.
C3_Witness ==
    node = "create_pr" /\ run = "running" /\ user_approved /\ gh_ops = <<>>

\* C4: a fix reaches the create_pr stage, and calls are made to the code host
\* for it, only if its kind is code change and its code_changes list is not
\* empty; an approved fix with an empty code_changes list goes to advance_error.
C4_OnlyRemediableFixesRemediated ==
    /\ ((node = "create_pr" /\ run = "running") \/ gh_ops # <<>>) =>
            /\ fix_proposal # None
            /\ fix_proposal[1].fix_type = "code_change"
            /\ Len(fix_proposal[1].code_changes) > 0
    /\ (/\ run = "running" /\ decision = "approved"
        /\ fix_proposal # None /\ fix_proposal[1].code_changes = <<>>)
            => node = "advance_error"

\* C4 witness: an approved code-change fix with no code changes goes to advance_error.
C4_Witness ==
    /\ run = "running" /\ decision = "approved" /\ node = "advance_error"
    /\ fix_proposal # None
    /\ fix_proposal[1].fix_type = "code_change"
    /\ fix_proposal[1].code_changes = <<>>

\* C5: once parse_logs has produced the error list, every error of it has
\* reached the suspend point after generate_fix by the time the run is over,
\* whatever the collaborators did.
C5_EveryIssueGetsDecision ==
    (node # "parse_logs" /\ run \in {"done", "failed"}) =>
        offered = 0..(total_errors - 1)

\* C6: a complete run hands the analysis exactly one error per error group, the
\* first of each group, in group order.
C6_AnalysisOncePerIssue ==
    run = "done" =>
        /\ Len(analysed) = Len(error_groups)
        /\ \A i \in 1..Len(error_groups) :
                i <= Len(analysed) => analysed[i] = error_groups[i][1]

\* C7: the cursor stays within 0..total_errors, the count the routing compares
\* it against.
C7_CursorInRange ==
    0 <= current_error_index /\ current_error_index <= total_errors

\* C7 witness: a run over several errors ended with the cursor at the count.
C7_Witness ==
    run = "done" /\ total_errors >= 2 /\ current_error_index = total_errors

\* C8: the run is over exactly when the cursor equals the count: done is not
\* entered before, no node is pending once it does, and a run that has parsed
\* its log ends in no other way than done.
C8_DoneIsTheOnlyEnd ==
    /\ run = "done" => current_error_index = total_errors
    /\ (node # "parse_logs" /\ current_error_index = total_errors) => run = "done"
    /\ node # "parse_logs" => run # "failed"

\* C9: advance_error has run exactly as many times as the cursor says, the
\* cursor never exceeds the count N, and a finished run made exactly N advances.
C9_AdvanceCountsToN ==
    /\ advances = current_error_index
    /\ current_error_index <= total_errors
    /\ run = "done" => advances = total_errors

\* C9 witness: a finished run over several errors, after as many advances.
C9_Witness ==
    run = "done" /\ advances >= 2 /\ advances = Len(error_entries)

\* C10: with every suspension resumed, a run that has parsed its log does not
\* stop short of done: until done, some step of the workflow is enabled.
C10_RunsOnToDone ==
    node # "parse_logs" => (run = "done" \/ ENABLED Next)

\* C11: errors are processed one after another: the stages run for an error
\* are, in this order, analyze_error, generate_fix, the suspension, optionally
\* create_pr; advance_error runs only after the suspension; and the analysis
\* of the next error starts only after advance_error has run for this one.
C11_StagesInOrderPerIssue ==
    /\ [](\E n \in 0..4 :
            stages = SubSeq(<<"analyze_error", "generate_fix", "suspend", "create_pr">>,
                            1, n))
    /\ []((node \in {"analyze_error", "generate_fix"} /\ run = "running")
            => advances = current_error_index)
    /\ [][analysed' # analysed =>
            /\ stages = <<>>
            /\ Len(analysed) = advances
            /\ analysed' = Append(analysed, error_entries[advances + 1])]_vars
    /\ [][advances' # advances =>
            /\ Len(stages) >= 3
            /\ current_error_index' = current_error_index + 1]_vars

\* C11 witness: the second error went through all four stages in order.
C11_Witness ==
    /\ stages = <<"analyze_error", "generate_fix", "suspend", "create_pr">>
    /\ current_error_index = 1 /\ advances = 1

C13_AdvanceResetsPerIssueFields ==
    [][advances' # advances =>
            /\ current_error_index' = current_error_index + 1
            /\ current_error_report' = None
            /\ fix_proposal' = None
            /\ user_approved' = FALSE
            /\ pr_created' = FALSE
            /\ pr_url' = None
            /\ pr_error' = None
            /\ UNCHANGED <<parsedVars>>
            /\ IF current_error_index + 1 < total_errors
               THEN node' = "analyze_error" /\ run' = "running"
               ELSE node' = "END" /\ run' = "done"]_vars

\* C13 witness: the advance after the first error left the second error with
\* empty per-error fields.
C13_Witness ==
    /\ advances = 1 /\ node = "analyze_error" /\ run = "running"
    /\ current_error_index = 1 /\ current_error_report = None
    /\ fix_proposal = None /\ ~user_approved /\ ~pr_created
    /\ pr_url = None /\ pr_error = None

\* C14: create_pr never raises past its boundary: whatever fails, it records
\* the outcome fields (a pull request with its locator, or a failure with its
\* message) and the run goes on to advance_error.
C14_RemediationNeverRaises ==
    /\ [][(node = "create_pr" /\ run = "running") =>
            /\ run' = "running" /\ node' = "advance_error"
            /\ \/ pr_created' /\ pr_url' # None /\ pr_error' = None
               \/ ~pr_created' /\ pr_url' = None /\ pr_error' # None
            /\ UNCHANGED <<current_error_index, fix_proposal, user_approved>>]_vars
    /\ [](run = "failed" => "create_pr" \notin {stages[i] : i \in 1..Len(stages)})

\* C14 witness: a failed branch creation was recorded and the run is at
\* advance_error.
C14_Witness ==
    /\ node = "advance_error" /\ run = "running"
    /\ gh_ops = <<Op("create_branch", 0, FALSE)>>
    /\ ~pr_created /\ pr_error = Some("Failed to create branch")

\* C15: when rewriting or pushing one code change fails, after earlier ones
\* were pushed or not, the outcome is a failure (no pull request, no locator,
\* a message), the failed call is the last call made, no pull request call is
\* made, and the earlier pushes stand.
C15_PartialApplicationIsFailure ==
    \A k \in 1..Len(gh_ops) :
        (gh_ops[k].op \in {"apply_code_change", "push_files"} /\ ~gh_ops[k].ok) =>
            /\ k = Len(gh_ops)
            /\ \A j \in 1..(k - 1) : gh_ops[j].ok
            /\ \A j \in 1..Len(gh_ops) :
                    gh_ops[j].op \in {"create_branch", "apply_code_change", "push_files"}
            /\ (node # "create_pr" =>
                    ~pr_created /\ pr_url = None /\ pr_error # None)

\* C15 witness: the second push failed after the first had succeeded.
C15_Witness ==
    /\ gh_ops = <<Op("create_branch", 0, TRUE), Op("push_files", 1, TRUE),
                  Op("push_files", 2, FALSE)>>
    /\ ~pr_created /\ pr_url = None /\ pr_error = Some("Failed to update file")

\* C16: when the analysis call raises or answers text that cannot be parsed,
\* analyze_error still ends with an analysis result of category unknown,
\* confidence 0 and a root cause noting the failure, and the run goes on.
C16_AnalysisDegradesGracefully ==
    analysis_answer \in {"raise", "unparsable"} =>
        /\ ~(run = "failed" /\ stages[Len(stages)] = "analyze_error")
        /\ current_error_report # None
        /\ current_error_report[1].error_type = "unknown"
        /\ current_error_report[1].confidence = 0
        /\ current_error_report[1].root_cause = "Failed to parse LLM response"

\* C17: when the fix-generation call raises or answers text that cannot be
\* parsed, generate_fix still ends with a fix proposal with no code changes,
\* risk high and confidence 0, and the run goes on.
C17_FixGenerationDegradesGracefully ==
    fix_answer \in {"raise", "unparsable"} =>
        /\ ~(run = "failed" /\ stages[Len(stages)] = "generate_fix")
        /\ fix_proposal # None
        /\ fix_proposal[1].code_changes = <<>>
        /\ fix_proposal[1].risk_level = "high"
        /\ fix_proposal[1].confidence = 0

\* C18: with neither a log text nor a log file reference, parse_logs fails
\* with the input-validation error (ValueError) and writes no entries, no
\* errors, no groups and no cursor; with a log text or an existing log file
\* it writes the parsed entries, the errors, the groups and cursor 0.
C18_ParseValidatesInput ==
    /\ [][(node = "parse_logs" /\ run = "running") =>
            IF input_kind = "none"
            THEN /\ run' = "failed" /\ raised' = "ValueError"
                 /\ UNCHANGED <<parsedVars, current_error_index>>
            ELSE IF input_kind \in {"content", "file"}
            THEN /\ run' # "failed"
                 /\ log_entries' = parse_log_content(Content(log_text))
                 /\ error_entries' = extract_errors(log_entries')
                 /\ error_groups' = group_errors_by_context(log_entries', error_entries')
                 /\ total_errors' = Len(error_entries')
                 /\ current_error_index' = 0
            ELSE TRUE]_vars
    /\ [](raised = "ValueError" =>
            /\ input_kind = "none" /\ node = "parse_logs"
            /\ log_entries = <<>> /\ error_entries = <<>> /\ error_groups = <<>>
            /\ total_errors = 0)

\* C18 witness: a run with no input ended in the input-validation error.
C18_Witness ==
    /\ input_kind = "none" /\ run = "failed" /\ raised = "ValueError"
    /\ log_entries = <<>> /\ error_entries = <<>>

\* The entry step (the parse_logs node, or the analyze command's reading and
\* parsing) has been taken.
Started == ~(run = "running" /\ node \in {"parse_logs", "cli_analyze"})

\* C19 as stated: with a log input that refers to a log file that does not
\* exist, the run fails at once with an input error, with no entries, no
\* issues and no further stage, on the parse_logs path and on the analyze
\* command path alike.
C19_MissingFileFailsOnBothPaths ==
    (input_kind = "missing_file" /\ Started) =>
        /\ run = "failed" /\ raised = "FileNotFoundError"
        /\ log_entries = <<>> /\ error_entries = <<>> /\ error_groups = <<>>
        /\ stages = <<>> /\ analysed = <<>> /\ gh_ops = <<>>

\* C19 as amended: with a log input that refers to a log file that does not
\* exist, the parse_logs stage fails at once with FileNotFoundError, with no
\* entries, no issues and no further stage; the analyze command raises no
\* input error: it reads the path as raw log text, which gives no entries and
\* no issues, runs no further stage and returns normally.
C19_MissingFileFailsParseOnly ==
    (input_kind = "missing_file" /\ Started) =>
        /\ log_entries = <<>> /\ error_entries = <<>> /\ error_groups = <<>>
        /\ total_errors = 0
        /\ stages = <<>> /\ analysed = <<>> /\ gh_ops = <<>>
        /\ IF cli_args = None
           THEN run = "failed" /\ raised = "FileNotFoundError" /\ node = "parse_logs"
           ELSE run = "done" /\ raised = "" /\ node = "END"

\* C19 witness: a graph run on a missing log file has failed in parse_logs.
C19_Witness ==
    /\ input_kind = "missing_file" /\ cli_args = None
    /\ run = "failed" /\ raised = "FileNotFoundError" /\ node = "parse_logs"

\* C20: when the parsed log has no error-level entry, the entry step goes
\* straight to the end: the run is done with total_errors = 0 and
\* current_error_index = 0, and no analysis, fix generation or remediation
\* has run (graph run and interactive command alike).
C20_NoErrorsGoesStraightToDone ==
    /\ [][(~Started /\ Started' /\ run' # "failed" /\ error_entries' = <<>>) =>
            /\ node' = "END" /\ run' = "done"
            /\ total_errors' = 0 /\ current_error_index' = 0]_vars
    /\ []((Started /\ run # "failed" /\ error_entries = <<>>) =>
            /\ run = "done" /\ node = "END"
            /\ total_errors = 0 /\ current_error_index = 0
            /\ stages = <<>> /\ analysed = <<>> /\ offered = {} /\ gh_ops = <<>>
            /\ current_error_report = None /\ fix_proposal = None)

\* C20 witness: a graph run on a log with entries but no error is done.
C20_Witness ==
    /\ cli_args = None /\ run = "done" /\ node = "END"
    /\ log_entries # <<>> /\ error_entries = <<>> /\ stages = <<>>

\* ------------------------------------------- claims on the parsing functions

\* sub is seq with some elements left out, the others in their order.
IsSubsequence(sub, seq) ==
    \E f \in [1..Len(sub) -> 1..Len(seq)] :
        /\ \A k \in 1..Len(sub) : seq[f[k]] = sub[k]
        /\ \A k \in 1..Len(sub) - 1 : f[k] < f[k + 1]

\* How often e occurs in seq.
CountOf(seq, e) == Cardinality({i \in 1..Len(seq) : seq[i] = e})

\* How often e occurs in the groups together.
CountInGroups(groups, e) ==
    Cardinality({p \in (1..Len(groups)) \X (1..MaxParserLines + 1) :
                    p[2] <= Len(groups[p[1]]) /\ groups[p[1]][p[2]] = e})

\* The line is not blank after strip() and LOG_PATTERN matches it.
MatchesGrammar(line) == strip(line) # <<>> /\ LOG_PATTERN(strip(line)) # None

\* The fields of a LogEntry.
LogEntryFields ==
    {"timestamp", "level", "source_file", "line_number", "function_name",
     "thread_id", "message", "raw_line"}

\* The last call, when it was a call of fn.
Called(fn) == call # None /\ call[1].fn = fn

\* C21: parse_log_content returns one entry per line that matches the
\* grammar, in the order of the lines; a line that gives no entry is blank
\* after strip() or does not match.
C21_OneEntryPerMatchingLineInOrder ==
    node = "extract_errors" =>
        LET matching == {i \in 1..Len(log_text) : MatchesGrammar(LineTable[log_text[i]])}
        IN  /\ Len(log_entries) = Cardinality(matching)
            /\ \E f \in [1..Len(log_entries) -> matching] :
                   /\ \A k \in 1..Len(log_entries) - 1 : f[k] < f[k + 1]
                   /\ \A k \in 1..Len(log_entries) :
                          /\ log_entries[k].raw_line = Str(strip(LineTable[log_text[f[k]]]))
                          /\ DOMAIN log_entries[k] = LogEntryFields

\* C21 witness: of three lines the middle one was dropped and the two
\* entries are in line order.
C21_Witness ==
    /\ node = "extract_errors"
    /\ Content(log_text) = <<ErrorLine, GarbageLine, CriticalLine>>
    /\ Len(log_entries) = 2
    /\ log_entries[1].level = "ERROR" /\ log_entries[2].level = "CRITICAL"

\* C22: parse_log_line never raises: it returns exactly one LogEntry or None,
\* and None for a line that is blank or does not match the grammar.
C22_ParseLogLineNeverRaises ==
    Called("parse_log_line") =>
        LET result == call[1].result
        IN  /\ \/ result = None
               \/ Len(result) = 1 /\ DOMAIN result[1] = LogEntryFields
            /\ ~MatchesGrammar(call[1].line) => result = None

\* C22 witness: a malformed line and a blank line were given, and gave None.
C22_Witness ==
    /\ Called("parse_log_line")
    /\ call[1].line \in {GarbageLine, FiveDigitLine}
    /\ call[1].result = None
    /\ \E i \in 1..Len(log_text) : LineTable[log_text[i]] = BlankLine

\* C23: extract_errors returns exactly the entries whose level is ERROR or
\* CRITICAL, in their order, and leaves its input as it was.
C23_ExtractErrorsIsAFilter ==
    /\ [](node = "group_errors_by_context" =>
            /\ \A k \in 1..Len(error_entries) :
                   error_entries[k].level \in {"ERROR", "CRITICAL"}
            /\ Len(error_entries) =
                   Cardinality({i \in 1..Len(log_entries) :
                                   log_entries[i].level \in {"ERROR", "CRITICAL"}})
            /\ IsSubsequence(error_entries, log_entries))
    /\ [][node = "extract_errors" => log_entries' = log_entries]_vars

\* C23 witness: of an ERROR, an INFO and a CRITICAL entry the two errors
\* were kept.
C23_Witness ==
    /\ node = "group_errors_by_context"
    /\ Len(log_entries) = 3 /\ log_entries[2].level = "INFO"
    /\ Len(error_entries) = 2
    /\ error_entries[1].level = "ERROR" /\ error_entries[2].level = "CRITICAL"

\* C24: the groups of group_errors_by_context are a partition of the error
\* list: every error occurs in the groups together as often as in the list
\* (so no occurrence is in two groups and none is lost), and no group is
\* empty.
C24_GroupsPartitionTheErrors ==
    node = "context" =>
        /\ \A g \in 1..Len(error_groups) : error_groups[g] # <<>>
        /\ \A g \in 1..Len(error_groups) : \A i \in 1..Len(error_groups[g]) :
               CountOf(error_entries, error_groups[g][i])
                   = CountInGroups(error_groups, error_groups[g][i])
        /\ \A i \in 1..Len(error_entries) :
               CountOf(error_entries, error_entries[i])
                   = CountInGroups(error_groups, error_entries[i])

\* C24 witness: three errors in two groups.
C24_Witness ==
    /\ node = "context"
    /\ Len(error_entries) = 3 /\ Len(error_groups) = 2
    /\ Len(error_groups[1]) = 2

\* C25: all errors of a group have the same source file and the same
\* function name, whatever file and function names the parser produces.
C25_GroupSharesFileAndFunction ==
    node = "context" =>
        \A g \in 1..Len(error_groups) : \A i, j \in 1..Len(error_groups[g]) :
            /\ error_groups[g][i].source_file = error_groups[g][j].source_file
            /\ error_groups[g][i].function_name = error_groups[g][j].function_name

FirstIndex(seq, e) ==
    CHOOSE i \in 1..Len(seq) : seq[i] = e /\ \A j \in 1..i - 1 : seq[j] # e

\* C27: the groups are in the order in which their first errors occur in the
\* error list, and inside a group the errors keep the order of the list.
C27_GroupsInFirstOccurrenceOrder ==
    node = "context" =>
        /\ \A g \in 1..Len(error_groups) - 1 :
               FirstIndex(error_entries, error_groups[g][1])
                   < FirstIndex(error_entries, error_groups[g + 1][1])
        /\ \A g \in 1..Len(error_groups) :
               IsSubsequence(error_groups[g], error_entries)

\* C27 witness: errors of keys A, B, A give the groups (A, A) and (B).
C27_Witness ==
    /\ node = "context"
    /\ Content(log_text) = <<ErrorLine, CriticalLine, ErrorLineOtherThread>>
    /\ Len(error_groups) = 2
    /\ error_groups[1] = <<error_entries[1], error_entries[3]>>
    /\ error_groups[2] = <<error_entries[2]>>

\* C28: get_full_context_for_group(all, G) is exactly the entries of all, of
\* any level, whose thread id is that of some member of G, in their order;
\* it holds every member of G.
C28_ContextIsTheGroupsThreads ==
    Called("get_full_context_for_group") =>
        LET G == call[1].error_group
            result == call[1].result
            threads == {G[i].thread_id : i \in 1..Len(G)}
        IN  /\ \A k \in 1..Len(result) : result[k].thread_id \in threads
            /\ Len(result) =
                   Cardinality({i \in 1..Len(log_entries) :
                                   log_entries[i].thread_id \in threads})
            /\ IsSubsequence(result, log_entries)
            /\ \A i \in 1..Len(G) : CountOf(result, G[i]) >= CountOf(G, G[i])

\* C28 witness: a group with errors of two threads gets the entries of both,
\* the INFO entry among them.
C28_Witness ==
    /\ Called("get_full_context_for_group")
    /\ Content(log_text) = <<InfoLine, ErrorLine, ErrorLineOtherThread>>
    /\ Len(call[1].error_group) = 2
    /\ call[1].result = log_entries

\* C29: group_related_entries returns at most 2 * context_lines + 1 entries,
\* the target among them; when no entry has the target's raw line the result
\* is the target alone.
C29_WindowIsBoundedAndHoldsTarget ==
    Called("group_related_entries") =>
        LET target == call[1].target_entry
            result == call[1].result
        IN  /\ Len(result) <= 2 * call[1].context_lines + 1
            /\ \E k \in 1..Len(result) : result[k] = target
            /\ (\A i \in 1..Len(log_entries) :
                    log_entries[i].raw_line # target.raw_line)
                => result = <<target>>

\* C29 witness: with radius 0 and three entries on the target's thread, the
\* result is the target alone.
C29_Witness ==
    /\ Called("group_related_entries")
    /\ call[1].context_lines = 0
    /\ Len(log_entries) = 3
    /\ \A i \in 1..3 : log_entries[i].thread_id = call[1].target_entry.thread_id
    /\ call[1].target_entry = log_entries[2]
    /\ call[1].result = <<log_entries[2]>>

\* The entries of the target's thread, in their order.
SameThread(target) ==
    SelectSeq(log_entries, LAMBDA e : e.thread_id = target.thread_id)

\* seq has run as a contiguous part.
IsRunOf(run_, seq) ==
    \E a \in 1..Len(seq) + 1 : \E b \in 0..Len(seq) :
        b - a + 1 = Len(run_) /\ \A k \in 1..Len(run_) : seq[a + k - 1] = run_[k]

\* C30 as stated: every entry group_related_entries returns has the target's
\* thread id, and the result is a contiguous run of the entries of that
\* thread, in their order.
C30_WindowIsRunOfTargetsThread ==
    Called("group_related_entries") =>
        /\ \A k \in 1..Len(call[1].result) :
               call[1].result[k].thread_id = call[1].target_entry.thread_id
        /\ IsRunOf(call[1].result, SameThread(call[1].target_entry))

\* C30 as amended: every entry returned has the target's thread id; when some
\* entry of that thread has the target's raw line the result is a contiguous
\* run of the entries of that thread, in their order, and otherwise it is the
\* target alone, which is no entry of the sequence.
C30_WindowIsRunOfTargetsThreadOrTarget ==
    Called("group_related_entries") =>
        LET target == call[1].target_entry
            result == call[1].result
        IN  /\ \A k \in 1..Len(result) : result[k].thread_id = target.thread_id
            /\ IF \E i \in 1..Len(SameThread(target)) :
                      SameThread(target)[i].raw_line = target.raw_line
               THEN IsRunOf(result, SameThread(target)) /\ result # <<>>
               ELSE result = <<target>>

\* C30 witness: the target is the only entry of its thread among three, and
\* the result holds it alone although the radius covers its neighbours.
C30_Witness ==
    /\ Called("group_related_entries")
    /\ call[1].context_lines = 1
    /\ Content(log_text) = <<InfoLine, CriticalLine, ErrorLine>>
    /\ call[1].target_entry = log_entries[2]
    /\ call[1].result = <<log_entries[2]>>

\* C31: when the analysis has run for the issue at the cursor, the log context
\* the text-generation service was sent (the report's related_entries, from
\* which analyze_error_sync builds the prompt) holds every entry of the
\* issue's group and is get_full_context_for_group of that group: every entry
\* of every thread the group touches.
C31_AnalysisReceivesGroupAndContext ==
    (/\ node \in {"generate_fix", "cli_fix"} /\ run = "running"
     /\ current_error_report # None
     /\ current_error_index < Len(error_groups)) =>
        LET error_group == error_groups[current_error_index + 1]
            sent == current_error_report[1].related_entries
        IN  /\ \A i \in 1..Len(error_group) :
                    \E j \in 1..Len(sent) : sent[j] = error_group[i]
            /\ sent = get_full_context_for_group(log_entries, error_group)

\* C32: in a run of the analyze command with --dry-run no remediation call
\* (create_branch, push, create_pull_request) is made for any issue, whatever
\* is answered at the prompts: the confirmation is never asked, the PR
\* creation is never entered and no pull request exists.
C32_DryRunNeverRemediates ==
    (cli_args # None /\ cli_args[1].dry_run) =>
        /\ gh_ops = <<>>
        /\ node \notin {"cli_confirm", "cli_create_pr"}
        /\ \A i \in 1..Len(stages) : stages[i] # "create_pr"
        /\ user_approved = FALSE
        /\ pr_created = FALSE /\ pr_url = None

\* A dry run that went through every issue of a log with two issues, the
\* last with a fix that requires a PR, with GitHub access configured.
C32_Witness ==
    /\ cli_args # None /\ cli_args[1].dry_run
    /\ has_github_access
    /\ run = "done"
    /\ Len(error_groups) = 2 /\ current_error_index = 1
    /\ fix_proposal # None /\ requires_pr(fix_proposal[1])

\* C33: every Log Entry the parser produces has a source line number of at
\* least 1: in the entries of parse_log_content and in the result of every
\* parse_log_line call.
C33_LineNumbersArePositive ==
    /\ \A i \in 1..Len(log_entries) : log_entries[i].line_number >= 1
    /\ (Called("parse_log_line") /\ call[1].result # None) =>
            call[1].result[1].line_number >= 1

\* C34: an approval does not carry over to a later error.  user_approved is
\* false whenever analyze_error or generate_fix is about to run and while the
\* run is suspended after generate_fix, where no decision for the current
\* error has been supplied yet; and a step that moves the cursor leaves
\* user_approved false.
C34_ApprovalDoesNotCarryOver ==
    /\ [](((run = "running" /\ node \in {"analyze_error", "generate_fix"})
            \/ run = "suspended") =>
                (~user_approved /\ decision = "none"))
    /\ [][current_error_index' # current_error_index => ~user_approved']_vars

\* The run is suspended at the second error, after a decision was supplied
\* for the first and the cursor advanced.
C34_Witness ==
    /\ cli_args = None
    /\ run = "suspended" /\ node = "generate_fix"
    /\ current_error_index = 1 /\ advances = 1
    /\ 0 \in offered
    /\ fix_proposal # None /\ requires_pr(fix_proposal[1])
    /\ ~user_approved

\* C35: the code-host calls of one remediation are made in the order
\* create_branch, then the pushes in the order of fix_proposal.code_changes,
\* then create_pull_request: the branch is created first and once, the
\* changes handled are in increasing list position, the pull request call is
\* the last call and is made once, and nothing is called after a call that
\* failed (so a failed branch creation is followed by no push and no pull
\* request, and a failed push by no pull request).
C35_RemediationCallsInOrder ==
    gh_ops # <<>> =>
        /\ gh_ops[1].op = "create_branch"
        /\ \A k \in 2..Len(gh_ops) : gh_ops[k].op # "create_branch"
        /\ \A k \in 1..Len(gh_ops) :
                gh_ops[k].op = "create_pull_request" => k = Len(gh_ops)
        /\ \A j, k \in 1..Len(gh_ops) :
                (/\ j < k
                 /\ gh_ops[j].op \in {"apply_code_change", "push_files"}
                 /\ gh_ops[k].op \in {"apply_code_change", "push_files"}) =>
                    gh_ops[j].arg < gh_ops[k].arg
        /\ \A k \in 1..Len(gh_ops) : ~gh_ops[k].ok => k = Len(gh_ops)

\* Branch, two pushes in list order and the pull request, all successful.
C35_Witness ==
    /\ gh_ops = <<Op("create_branch", 0, TRUE), Op("push_files", 1, TRUE),
                  Op("push_files", 2, TRUE), Op("create_pull_request", 0, TRUE)>>
    /\ pr_created

\* C36: when a remediation has ended with a pull request created, every code
\* change of the fix proposal was pushed to the branch, successfully, before
\* the pull request call; so at least one change was pushed.
C36_PullRequestOnlyAfterEveryPush ==
    (pr_created /\ gh_ops # <<>> /\ fix_proposal # None) =>
        LET code_changes == fix_proposal[1].code_changes
            pr == CHOOSE k \in 1..Len(gh_ops) : gh_ops[k].op = "create_pull_request"
        IN  /\ \E k \in 1..Len(gh_ops) : gh_ops[k].op = "create_pull_request"
            /\ \A i \in 1..Len(code_changes) :
                    \E k \in 1..(pr - 1) :
                        gh_ops[k] = Op("push_files", code_changes[i], TRUE)
            /\ \E k \in 1..(pr - 1) : gh_ops[k].op = "push_files"

\* C37: when create_pr_node has returned, the outcome fields agree: either
\* pr_created is true, pr_url is a non-empty locator and pr_error is unset, or
\* pr_created is false, pr_url is unset and pr_error is a non-empty message.
C37_OutcomeFieldsAgree ==
    (stages # <<>> /\ stages[Len(stages)] = "create_pr" /\ run # "failed") =>
        /\ pr_created <=> (pr_url # None /\ pr_error = None)
        /\ pr_created => pr_url[1] # ""
        /\ ~pr_created => (pr_url = None /\ pr_error # None /\ pr_error[1] # "")

\* create_pr_node has returned a created pull request with its locator.
C37_Witness ==
    /\ cli_args = None
    /\ node = "advance_error"
    /\ stages # <<>> /\ stages[Len(stages)] = "create_pr"
    /\ pr_created /\ pr_url = Some("pr-url") /\ pr_error = None

\* C38: inside the graph analyze_error runs only with current_error_index
\* below the number of error entries, so its out-of-range branch is never
\* taken (analysis_complete stays false) and generate_fix always finds an
\* error report.
C38_AnalyzeCursorIsValid ==
    cli_args = None =>
        /\ (node = "analyze_error" /\ run = "running") =>
                current_error_index < Len(error_entries)
        /\ (node = "generate_fix" /\ run = "running") =>
                current_error_report # None
        /\ ~analysis_complete

\* generate_fix is about to run for the second error, with its report.
C38_Witness ==
    /\ cli_args = None
    /\ node = "generate_fix" /\ run = "running"
    /\ current_error_index = 1
    /\ current_error_report # None
    /\ current_error_report[1].primary_error = error_entries[2]

\* The lines of seq whose positions satisfy keep.
SelectByIndex(seq, keep(_)) ==
    LET RECURSIVE from(_)
        from(i) == IF i > Len(seq) THEN <<>>
                   ELSE (IF keep(i) THEN <<seq[i]>> ELSE <<>>) \o from(i + 1)
    IN  from(1)

\* C39: when apply_code_change does not find the original text in the file and
\* line_start and line_end are positive, the new content is the file's lines
\* outside line_start..line_end, each once and in order, with the lines of
\* the replacement text put in where the lines before line_start end: the
\* lines of the range are the only ones removed and no other line is lost or
\* duplicated.
C39_LineRangeIsReplaced ==
    (/\ Called("apply_code_change")
     /\ call[1].file # None
     /\ Find(call[1].file[1], strip(call[1].change.original_code)) = 0
     /\ call[1].change.line_start > 0 /\ call[1].change.line_end > 0) =>
        LET change == call[1].change
            lines == split(call[1].file[1], "\n")
            kept == SelectByIndex(lines,
                        LAMBDA i : i < change.line_start \/ i > change.line_end)
            before == Min(change.line_start - 1, Len(lines))
        IN  /\ call[1].result.error = ""
            /\ before <= Len(kept)
            /\ call[1].result.content =
                    join(Take(kept, before) \o split(change.new_code, "\n")
                            \o Drop(kept, before), "\n")

\* C40: _parse_includes returns no file name twice, whichever way and however
\* often the file is included: quoted or in angle brackets, with or without
\* a directory path.
C40_NoDuplicateIncludes ==
    Called("_parse_includes") =>
        \A i, j \in 1..Len(call[1].result) :
            call[1].result[i] = call[1].result[j] => i = j

\* a.h included quoted, in angle brackets and with a path: returned once.
C40_Witness ==
    /\ Called("_parse_includes")
    /\ call[1].source_code = QuotedInclude \o AnglePathInclude \o QuotedPathInclude
    /\ call[1].result = <<"a.h">>

====
